---- MODULE Spec2Model ----
(***************************************************************************)
(* Verification model of the trading-state core:                           *)
(*   - SessionAcc  (src/src/accounting/sessionacc.py): FIFO accounting     *)
(*   - Oms         (src/src/oms/oms.py): order / position state engine     *)
(*   - throttle    (src/src/utils/throttle.py): sliding-window limiter     *)
(*                                                                         *)
(* Money is kept as an exact integer in units of 1/RateDen; fee rates are  *)
(* integers in units of 1/RateDen (taker 0.001 is 1).  Prices and          *)
(* quantities are integers.  Time is counted in ticks, TicksPerSecond      *)
(* ticks to the second.                                                    *)
(***************************************************************************)
EXTENDS Integers, Sequences, FiniteSets, TLC

VARIABLES
  \* ---- SessionAcc ----
  maker, taker,            \* fee rates given to the constructor
  buys, sells,             \* unmatched-fill queues
  wins, n_matched,         \* counters
  pnl, max_pnl, drawdown,  \* session metrics
  accPc,                   \* position of _on_exec_message: "idle" | "matching"
  accOut,                  \* how the last _on_exec_message call ended
  matched,                 \* locals b, s, Q, net_profit of the last iteration
  \* ---- delivery-order experiment on SessionAcc ----
  universe,                \* the fills of the experiment, by execution time
  pending,                 \* execution times not yet delivered
  chrono,                  \* TRUE while batches arrived in execution-time order
  shuffled,                \* TRUE once a batch arrived not sorted by time
  batches,                 \* number of batches delivered
  \* ---- Oms: order stream ----
  order_status,            \* link-id -> status
  active_orders,           \* link-id -> the order event last stored for it
  ordPc,                   \* position of _on_order_message: "idle" | "applying"
  orderTodo,               \* the events of data the for loop has yet to visit
  ordOut,                  \* how the last _on_order_message call ended
  \* ---- Oms: execution stream ----
  position,                \* signed position
  side,                    \* side of the last fill
  position_event,          \* the "update in progress" Event
  execPc,                  \* position of Oms._on_exec_message: "idle" | "processing"
  execData,                \* msg["data"] of the message being processed
  execOut,                 \* how the last Oms._on_exec_message call ended
  deliveredNet,            \* sum of +qty / -qty over the fills delivered so far
  \* ---- throttle ----
  now,                     \* time(), in ticks
  rate,                    \* the rate the decorator was built with
  threads,                 \* the contexts that call throttled operations
  calls,                   \* the module-level list _calls
  tpc,                     \* per context: its position in wrapper
  tlocal,                  \* per context: the list it built and has yet to store
  stamps,                  \* every timestamp appended to _calls, in order
  started,                 \* the times at which func was entered, in order
  \* ---- Oms: caller operations ----
  API_RATE,                \* the module global, as __init__ leaves it
  order_link_id_n,         \* counter of generated link-ids
  crPc,                    \* position of create_order: "idle" | "sending"
  crArgs,                  \* args of the create_order call in progress
  sent,                    \* the requests sent on the trade connection
  statusOut,               \* what the last order_status call returned
  callOut,                 \* how the last caller operation ended
  lastOp,                  \* the caller operation called last, numbered
  \* ---- Oms: connections ----
  flag,                    \* _flag
  websockets,              \* _websockets: key -> connection
  nConn,                   \* number of connections created so far
  connState,               \* per connection: "none" | "created" | "open" |
                           \*   "closed" | "closeRaised"
  pinger,                  \* per connection, its _pinger thread:
                           \*   "none" | "running" | "exited"
  pings,                   \* per connection: pings sent
  killed,                  \* the connections the last kill() found in the map
  recPc,                   \* position of reconnect: "idle" | "connect"
  \* ---- inbound messages ----
  inbound,                 \* the channel and message a handler was last given
  tradeOut,                \* how the last _on_trade_message call ended
  \* ---- Oms: create_order called from several contexts ----
  cpc,                     \* per context: its position in create_order
  clocal,                  \* per context: the link-id it built, the counter
                           \*   value it loaded
  \* ---- reference accounting engine ----
  ref                      \* an engine that matches after every single fill,
                           \*   and the matches it made for the last batch

accVars == <<maker, taker, buys, sells, wins, n_matched, pnl, max_pnl,
             drawdown, accPc, accOut, matched>>
ordVars == <<universe, pending, chrono, shuffled, batches>>
omsOrdVars == <<order_status, active_orders, ordPc, orderTodo, ordOut>>
omsExecVars == <<position, side, position_event, execPc, execData, execOut,
                 deliveredNet>>
thrVars == <<now, rate, threads, calls, tpc, tlocal, stamps, started>>
cliVars == <<API_RATE, order_link_id_n, crPc, crArgs, sent, statusOut,
             callOut, lastOp>>
connVars == <<flag, websockets, nConn, connState, pinger, pings, killed, recPc>>
inVars == <<inbound, tradeOut>>
concVars == <<cpc, clocal>>
refVars == <<ref>>
callerVars == <<cliVars, connVars, inVars, concVars, refVars>>
vars == <<accVars, ordVars, omsOrdVars, omsExecVars, thrVars, cliVars,
          connVars, inVars, concVars, refVars>>

----------------------------------------------------------------------------
(* Bounds *)
MaxQty == 2
MaxQueue == 2
MaxMatched == 2
MaxFills == 3
MaxLeaves == 1
MaxPosition == 3
MaxRate == 3
MaxCalls == 4
MaxNow == 4
NThreads == 2
MaxConnects == 2
MaxOps == 3
MaxPings == 1
MaxCliPosition == 1
MaxInbound == 4
MaxBatches == 2
MaxRefQueue == 3
TicksPerSecond == 2

(* Program constants and input alphabets *)
RateDen == 1000
Symbol == "BTCUSDT"
OtherSymbol == "ETHUSDT"
Category == "linear"
OtherCategory == "spot"
Prices == {100, 110}
Times == {1, 2}
BatchLens == {1, 2}
Sides == {"Buy", "Sell"}
MakerRates == {0}
TakerRates == {1}

Max(a, b) == IF a >= b THEN a ELSE b
Min(a, b) == IF a <= b THEN a ELSE b

----------------------------------------------------------------------------
(* Inbound messages.  An event is a JSON object; `missing` names the key   *)
(* the object lacks ("none" when it has them all).                         *)

Has(e, k) == e.missing # k

ExecEvent(sym, cat, sd, p, q, m, t, miss) ==
  [symbol |-> sym, category |-> cat, side |-> sd, execPrice |-> p,
   execQty |-> q, isMaker |-> m, execTime |-> t, missing |-> miss]

\* fills of the tracked symbol and category
TrackedFills ==
  { ExecEvent(Symbol, Category, sd, p, q, m, t, "none") :
      sd \in Sides, p \in Prices, q \in 1..MaxQty, m \in BOOLEAN,
      t \in Times }

\* fills of the tracked symbol and category that report a quantity of zero
ZeroFills ==
  { ExecEvent(Symbol, Category, "Buy", 100, 0, TRUE, 1, "none"),
    ExecEvent(Symbol, Category, "Sell", 110, 0, FALSE, 1, "none") }

\* fills of another symbol or another category
ForeignFills ==
  { ExecEvent(OtherSymbol, Category, "Buy", 100, 1, TRUE, 1, "none"),
    ExecEvent(Symbol, OtherCategory, "Sell", 110, 1, FALSE, 1, "none") }

\* events of the tracked symbol and category that lack one key
MalformedFills ==
  { ExecEvent(Symbol, Category, "Buy", 100, 1, TRUE, t, "side") :
      t \in Times }
    \cup { ExecEvent(Symbol, Category, "Buy", 100, 1, TRUE, 1, "execTime") }

ExecEvents == TrackedFills \cup ZeroFills \cup ForeignFills \cup MalformedFills

AccTopic == "execution.fast.linear"

\* the batches of exactly n events
BatchesOfLen(S, n) == [1..n -> S]

DataMsg(tp, d) ==
  [hasTopic |-> TRUE, topic |-> tp, data |-> d,
   hasSuccess |-> FALSE, success |-> FALSE]
AckMsg(ok) ==
  [hasTopic |-> FALSE, topic |-> "", data |-> <<>>,
   hasSuccess |-> TRUE, success |-> ok]

\* the number of events of d that the engine may append to a queue
RECURSIVE Fills(_)
Fills(d) ==
  IF d = <<>> THEN 0
  ELSE (IF Head(d) \in TrackedFills \cup ZeroFills THEN 1 ELSE 0) + Fills(Tail(d))

ExecMsgs ==
  { DataMsg(AccTopic, d) :
      d \in UNION { BatchesOfLen(ExecEvents, n) : n \in BatchLens } }
    \cup { DataMsg("order", <<f>>) : f \in ForeignFills }
    \cup { AckMsg(ok) : ok \in BOOLEAN }

\* the messages that carry exactly k fills
ExecMsgsOfFills ==
  [k \in {0} \cup BatchLens |-> { m \in ExecMsgs : Fills(m.data) = k }]

----------------------------------------------------------------------------
(* Helpers shared by the handlers *)

\* e["symbol"] == self._symbol and e["category"] == self._category
IsTracked(e) == e.symbol = Symbol /\ e.category = Category

\* evaluating the test above raises KeyError
TrackedRaises(e) ==
  \/ ~Has(e, "symbol")
  \/ e.symbol = Symbol /\ ~Has(e, "category")

\* any(... for e in msg["data"]) stops at the first tracked event; it raises
\* KeyError when it meets an event lacking a key before that
RECURSIVE AnyTracked(_)
AnyTracked(d) ==
  IF d = <<>> THEN "false"
  ELSE IF TrackedRaises(Head(d)) THEN "KeyError"
  ELSE IF IsTracked(Head(d)) THEN "true"
  ELSE AnyTracked(Tail(d))

SelectTracked(d) == SelectSeq(d, IsTracked)
FilterRaises(d) == \E i \in 1..Len(d) : TrackedRaises(d[i])

\* sorted(..., key=...) is stable: an element goes after every element whose
\* key is not greater.  Works on pairs [k |-> key, v |-> element].
RECURSIVE InsertByKey(_, _)
InsertByKey(p, s) ==
  IF s = <<>> THEN <<p>>
  ELSE IF p.k < Head(s).k THEN <<p>> \o s
  ELSE <<Head(s)>> \o InsertByKey(p, Tail(s))

RECURSIVE SortedByKey(_)
SortedByKey(ps) ==
  IF ps = <<>> THEN <<>>
  ELSE InsertByKey(ps[Len(ps)], SortedByKey(SubSeq(ps, 1, Len(ps) - 1)))

\* sorted(data, key=lambda e: int(e["execTime"]))
SortedByExecTime_unsorted(d) == d

SortedByExecTime_reversed(d) ==
  LET ps == SortedByKey([i \in 1..Len(d) |-> [k |-> d[i].execTime, v |-> d[i]]])
  IN  [i \in 1..Len(d) |-> ps[Len(d) + 1 - i].v]

SortedByExecTime(d) ==
  LET ps == SortedByKey([i \in 1..Len(d) |-> [k |-> d[i].execTime, v |-> d[i]]])
  IN  [i \in 1..Len(d) |-> ps[i].v]

----------------------------------------------------------------------------
(* SessionAcc *)

Fill(e) == [price |-> e.execPrice, qty |-> e.execQty, isMaker |-> e.isMaker]

\* the dict literal of lines 259-263 reads execPrice, execQty, isMaker
FillRaises(e) ==
  ~Has(e, "side") \/ ~Has(e, "execPrice") \/ ~Has(e, "execQty")
    \/ ~Has(e, "isMaker")

\* for e in data: append to buys or sells; stops at the first KeyError,
\* keeping what was appended before it
RECURSIVE AppendFills(_, _, _)
AppendFills(bs, ss, d) ==
  IF d = <<>> THEN [buys |-> bs, sells |-> ss, raised |-> FALSE]
  ELSE IF FillRaises(Head(d)) THEN [buys |-> bs, sells |-> ss, raised |-> TRUE]
  ELSE IF Head(d).side = "Buy"
       THEN AppendFills(Append(bs, Fill(Head(d))), ss, Tail(d))
       ELSE AppendFills(bs, Append(ss, Fill(Head(d))), Tail(d))

FeeRate_swapped(isMaker, mk, tk) == IF isMaker THEN tk ELSE mk

\* the rate of cb and cs: maker if the fill's isMaker is set, else taker
FeeRate(isMaker, mk, tk) == IF isMaker THEN mk ELSE tk

\* net_profit of matching Q units of buy b against sell s, in 1/RateDen
NetProfit(b, s, Q, mk, tk) ==
  LET vb == Q * b.price
      vs == Q * s.price
      cb == vb * FeeRate(b.isMaker, mk, tk)
      cs == vs * FeeRate(s.isMaker, mk, tk)
  IN  RateDen * vs - RateDen * vb - cb - cs

Reduce_keepsHead(q, Q) ==
  IF q[1].qty - Q = 0 THEN Tail(q) ELSE q

\* self._buys[0]["qty"] -= Q, then del self._buys[0] when its qty reached 0
Reduce(q, Q) ==
  IF q[1].qty - Q = 0 THEN Tail(q)
  ELSE <<[q[1] EXCEPT !.qty = q[1].qty - Q]>> \o Tail(q)

IsWin_strict(net) == net > 0

\* if net_profit >= 0: self._wins += 1
IsWin(net) == net >= 0

NewPeak_last(peak, p) == p

\* self._max_pnl = max(self._max_pnl, self._pnl)
NewPeak(peak, p) == Max(peak, p)

NewDrawdown_current(dd, peak, p) == peak - p

\* self._drawdown = max(self._drawdown, self._max_pnl - self._pnl)
NewDrawdown(dd, peak, p) == Max(dd, peak - p)

\* one iteration of the while loop, on an engine state st
MatchOnce(st) ==
  LET b == st.buys[1]
      s == st.sells[1]
      Q == Min(b.qty, s.qty)
      net == NetProfit(b, s, Q, st.maker, st.taker)
      p == st.pnl + net
      mx == NewPeak(st.max_pnl, p)
  IN  [st EXCEPT !.n_matched = st.n_matched + 1,
                 !.pnl = p,
                 !.wins = IF IsWin(net) THEN st.wins + 1 ELSE st.wins,
                 !.buys = Reduce(st.buys, Q),
                 !.sells = Reduce(st.sells, Q),
                 !.max_pnl = mx,
                 !.drawdown = NewDrawdown(st.drawdown, mx, p)]

\* the whole while loop
RECURSIVE MatchLoop(_)
MatchLoop(st) ==
  IF st.buys # <<>> /\ st.sells # <<>> THEN MatchLoop(MatchOnce(st)) ELSE st

AccState ==
  [maker |-> maker, taker |-> taker, buys |-> buys, sells |-> sells,
   wins |-> wins, n_matched |-> n_matched, pnl |-> pnl,
   max_pnl |-> max_pnl, drawdown |-> drawdown]

NewAcc(mk, tk) ==
  [maker |-> mk, taker |-> tk, buys |-> <<>>, sells |-> <<>>,
   wins |-> 0, n_matched |-> 0, pnl |-> 0, max_pnl |-> 0, drawdown |-> 0]

\* win_rate: None while nothing was matched, else the fraction wins/n_matched
win_rate(w, n) ==
  IF n = 0 THEN [none |-> TRUE, num |-> 0, den |-> 1]
  ELSE [none |-> FALSE, num |-> w, den |-> n]

\* what the try block of _on_exec_message does to the queues:
\*   "skip"     the condition is false, nothing is touched
\*   "KeyError" raised before or during the appends
\*   "ok"       every fill appended, the while loop follows
AccIntake(msg, bs, ss) ==
  IF ~msg.hasTopic THEN [buys |-> bs, sells |-> ss, end |-> "KeyError"]
  ELSE IF msg.topic # AccTopic THEN [buys |-> bs, sells |-> ss, end |-> "skip"]
  ELSE LET a == AnyTracked(msg.data) IN
    IF a = "KeyError" THEN [buys |-> bs, sells |-> ss, end |-> "KeyError"]
    ELSE IF a = "false" THEN [buys |-> bs, sells |-> ss, end |-> "skip"]
    ELSE IF FilterRaises(msg.data)
      THEN [buys |-> bs, sells |-> ss, end |-> "KeyError"]
    ELSE LET sel == SelectTracked(msg.data) IN
      IF \E i \in 1..Len(sel) : ~Has(sel[i], "execTime")
      THEN [buys |-> bs, sells |-> ss, end |-> "KeyError"]
      ELSE LET r == AppendFills(bs, ss, SortedByExecTime(sel)) IN
        [buys |-> r.buys, sells |-> r.sells,
         end |-> IF r.raised THEN "KeyError" ELSE "ok"]

AccExcept_onSuccess(msg) ==
  IF msg.hasSuccess /\ msg.success THEN "ConnectionError" ELSE "returned"

\* except KeyError: raise ConnectionError when the message says success=false
AccExcept(msg) ==
  IF msg.hasSuccess /\ ~msg.success THEN "ConnectionError" ELSE "returned"

NoFill == [price |-> 0, qty |-> 0, isMaker |-> FALSE]
NoMatch == [n |-> 0, b |-> NoFill, s |-> NoFill, Q |-> 0, net |-> 0]

\* b, s, Q and net_profit as iteration number n of the loop computes them
MatchLocals(st) ==
  LET b == st.buys[1]
      s == st.sells[1]
      Q == Min(b.qty, s.qty)
  IN  [n |-> st.n_matched + 1, b |-> b, s |-> s, Q |-> Q,
       net |-> NetProfit(b, s, Q, st.maker, st.taker)]

AccInit ==
  /\ maker \in MakerRates
  /\ taker \in TakerRates
  /\ buys = <<>>
  /\ sells = <<>>
  /\ wins = 0
  /\ n_matched = 0
  /\ pnl = 0
  /\ max_pnl = 0
  /\ drawdown = 0
  /\ accPc = "idle"
  /\ accOut = "none"
  /\ matched = NoMatch

\* _on_exec_message up to the while loop (lines 232-264, 302-307)
Acc_on_exec_message(msg) ==
  /\ accPc = "idle"
  /\ LET r == AccIntake(msg, buys, sells) IN
       /\ buys' = r.buys
       /\ sells' = r.sells
       /\ accPc' = IF r.end = "ok" /\ r.buys # <<>> /\ r.sells # <<>>
                   THEN "matching" ELSE "idle"
       /\ accOut' = IF r.end = "KeyError" THEN AccExcept(msg) ELSE "returned"
  /\ UNCHANGED <<maker, taker, wins, n_matched, pnl, max_pnl, drawdown,
                 matched>>

\* one iteration of the while loop (lines 267-301)
Acc_match ==
  /\ accPc = "matching"
  /\ LET st == MatchOnce(AccState) IN
       /\ buys' = st.buys
       /\ sells' = st.sells
       /\ wins' = st.wins
       /\ n_matched' = st.n_matched
       /\ pnl' = st.pnl
       /\ max_pnl' = st.max_pnl
       /\ drawdown' = st.drawdown
       /\ accPc' = IF st.buys # <<>> /\ st.sells # <<>>
                   THEN "matching" ELSE "idle"
  /\ matched' = MatchLocals(AccState)
  /\ UNCHANGED <<maker, taker, accOut>>

(* Oms: the order-stream handler *)

LinkIds == {"a", "b"}
Statuses == {"New", "Filled", "Cancelled"}

\* the exchange-assigned id of the order a link-id names
OrderIdOf(id) == IF id = "a" THEN "id-a" ELSE "id-b"

OrderEvent(sym, cat, id, st, lv, t, miss) ==
  [symbol |-> sym, category |-> cat, orderLinkId |-> id,
   orderId |-> OrderIdOf(id), orderStatus |-> st, leavesQty |-> lv,
   updatedTime |-> t, missing |-> miss]

TrackedOrders ==
  { OrderEvent(Symbol, Category, id, st, lv, t, "none") :
      id \in LinkIds, st \in Statuses, lv \in 0..MaxLeaves, t \in Times }

ForeignOrders ==
  { OrderEvent(OtherSymbol, Category, "a", "Filled", 0, 1, "none") }

MalformedOrders ==
  { OrderEvent(Symbol, Category, "a", "Cancelled", 0, 2, miss) :
      miss \in {"orderStatus", "leavesQty"} }

OrderEvents == TrackedOrders \cup ForeignOrders \cup MalformedOrders

OrderMsgs ==
  { DataMsg("order", d) :
      d \in UNION { BatchesOfLen(OrderEvents, n) : n \in BatchLens } }
    \cup { DataMsg(AccTopic, <<o>>) : o \in ForeignOrders }
    \cup { AckMsg(ok) : ok \in BOOLEAN }

SortedByUpdatedTime_asDelivered(d) == d

\* sorted(data, key=lambda o: int(o["updatedTime"]))
SortedByUpdatedTime(d) ==
  LET ps == SortedByKey([i \in 1..Len(d) |-> [k |-> d[i].updatedTime, v |-> d[i]]])
  IN  [i \in 1..Len(d) |-> ps[i].v]

\* the try block up to the for loop: the tracked events sorted, or how the
\* block ended without reaching the loop
OrderIntake(msg) ==
  IF ~msg.hasTopic THEN [data |-> <<>>, end |-> "Exception"]
  ELSE IF msg.topic # "order" THEN [data |-> <<>>, end |-> "skip"]
  ELSE LET a == AnyTracked(msg.data) IN
    IF a = "KeyError" THEN [data |-> <<>>, end |-> "Exception"]
    ELSE IF a = "false" THEN [data |-> <<>>, end |-> "skip"]
    ELSE IF FilterRaises(msg.data) THEN [data |-> <<>>, end |-> "Exception"]
    ELSE LET sel == SelectTracked(msg.data) IN
      IF \E i \in 1..Len(sel) : ~Has(sel[i], "updatedTime")
      THEN [data |-> <<>>, end |-> "Exception"]
      ELSE [data |-> SortedByUpdatedTime(sel), end |-> "ok"]

\* dict with key k set to v / without key k
Put(f, k, v) == [x \in DOMAIN f \cup {k} |-> IF x = k THEN v ELSE f[x]]
Pop(f, k) == [x \in DOMAIN f \ {k} |-> f[x]]

IsLive_always(o) == TRUE

\* float(o["leavesQty"]) != 0
IsLive(o) == o.leavesQty # 0

OmsOrdInit ==
  /\ order_status = << >>
  /\ active_orders = << >>
  /\ ordPc = "idle"
  /\ orderTodo = <<>>
  /\ ordOut = "none"

\* _on_order_message up to the for loop (lines 359-376, 388-391)
Oms_on_order_message(msg) ==
  /\ ordPc = "idle"
  /\ LET r == OrderIntake(msg) IN
       /\ orderTodo' = r.data
       /\ ordPc' = IF r.end = "ok" THEN "applying" ELSE "idle"
       /\ ordOut' = IF r.end = "Exception" THEN AccExcept(msg) ELSE "returned"
  /\ UNCHANGED <<order_status, active_orders>>

\* one iteration of the for loop (lines 379-387); a missing key ends the
\* handler in the except clause, keeping what was assigned before
Oms_order_apply ==
  /\ ordPc = "applying"
  /\ LET o == Head(orderTodo)
         id == o.orderLinkId
         rest == Tail(orderTodo)
     IN  IF ~Has(o, "orderLinkId") \/ ~Has(o, "orderStatus")
         THEN /\ UNCHANGED <<order_status, active_orders>>
              /\ orderTodo' = <<>>
              /\ ordPc' = "idle"
         ELSE /\ order_status' = Put(order_status, id, o.orderStatus)
              /\ IF ~Has(o, "leavesQty")
                 THEN /\ UNCHANGED active_orders
                      /\ orderTodo' = <<>>
                      /\ ordPc' = "idle"
                 ELSE /\ active_orders' = IF IsLive(o)
                                          THEN Put(active_orders, id, o)
                                          ELSE Pop(active_orders, id)
                      /\ orderTodo' = rest
                      /\ ordPc' = IF rest = <<>> THEN "idle" ELSE "applying"
  /\ UNCHANGED ordOut

OmsOrdNext ==
  \/ /\ \E msg \in OrderMsgs : Oms_on_order_message(msg)
     /\ UNCHANGED <<accVars, ordVars, omsExecVars, thrVars, callerVars>>
  \/ Oms_order_apply /\ UNCHANGED <<accVars, ordVars, omsExecVars, thrVars, callerVars>>

----------------------------------------------------------------------------
(* Oms: the execution-stream handler *)

ExecTopic == "execution.fast.linear"

\* the fills the order engine is fed: price and maker flag play no part
OmsExecEvents ==
  { e \in TrackedFills : e.execPrice = 100 /\ e.isMaker }
    \cup ZeroFills \cup ForeignFills \cup MalformedFills

OmsExecMsgs ==
  { DataMsg(ExecTopic, d) :
      d \in UNION { BatchesOfLen(OmsExecEvents, n) : n \in BatchLens } }
    \cup { DataMsg("order", <<f>>) :
             f \in { e \in TrackedFills : e.execPrice = 100 /\ e.isMaker } }
    \cup { AckMsg(ok) : ok \in BOOLEAN }

Signed(e) == IF e.side = "Buy" THEN e.execQty ELSE 0 - e.execQty

\* for e in data: self._position += ...; stops at the first KeyError
RECURSIVE Accumulate(_, _)
Accumulate(pos, d) ==
  IF d = <<>> THEN [position |-> pos, raised |-> FALSE]
  ELSE IF ~Has(Head(d), "execQty") \/ ~Has(Head(d), "side")
       THEN [position |-> pos, raised |-> TRUE]
       ELSE Accumulate(pos + Signed(Head(d)), Tail(d))

\* the condition of the if statement: "true", "false" or "KeyError"
ExecCondition(msg) ==
  IF ~msg.hasTopic THEN "KeyError"
  ELSE IF msg.topic # ExecTopic THEN "false"
  ELSE AnyTracked(msg.data)

\* +qty for every Buy and -qty for every Sell among the fills of the tracked
\* symbol and category that d delivers
RECURSIVE NetOfFills(_)
NetOfFills(d) ==
  IF d = <<>> THEN 0
  ELSE (IF Head(d) \in TrackedFills \cup ZeroFills THEN Signed(Head(d)) ELSE 0)
         + NetOfFills(Tail(d))

OmsExecInit ==
  /\ position = 0
  /\ side = "None"
  /\ position_event = FALSE
  /\ execPc = "idle"
  /\ execData = <<>>
  /\ execOut = "none"
  /\ deliveredNet = 0

\* Oms._on_exec_message up to self._position_event.set() (lines 409-420)
Oms_on_exec_message(msg) ==
  /\ execPc = "idle"
  /\ LET c == ExecCondition(msg) IN
       /\ position_event' = (position_event \/ c = "true")
       /\ execPc' = IF c = "true" THEN "processing" ELSE "idle"
       /\ execData' = IF c = "true" THEN msg.data ELSE <<>>
       /\ execOut' = IF c = "KeyError" THEN AccExcept(msg) ELSE "returned"
  /\ deliveredNet' = deliveredNet +
       (IF msg.hasTopic /\ msg.topic = ExecTopic THEN NetOfFills(msg.data) ELSE 0)
  /\ UNCHANGED <<position, side>>

\* the rest of the try block (lines 422-445): sort, accumulate, record the
\* side, clear the event; a KeyError leaves through the except clause
Oms_exec_process ==
  /\ execPc = "processing"
  /\ IF FilterRaises(execData)
        \/ \E i \in 1..Len(execData) :
             IsTracked(execData[i]) /\ ~Has(execData[i], "execTime")
     THEN UNCHANGED <<position, side, position_event>>
     ELSE LET data == SortedByExecTime(SelectTracked(execData))
              r == Accumulate(position, data)
          IN  /\ position' = r.position
              /\ IF r.raised
                 THEN UNCHANGED <<side, position_event>>
                 ELSE /\ side' = data[Len(data)].side
                      /\ position_event' = FALSE
  /\ execPc' = "idle"
  /\ execData' = <<>>
  /\ UNCHANGED <<execOut, deliveredNet>>

OmsExecNext ==
  \/ /\ deliveredNet \in (0 - MaxPosition)..MaxPosition
     /\ position \in (0 - MaxPosition)..MaxPosition
     /\ \E msg \in OmsExecMsgs : Oms_on_exec_message(msg)
     /\ UNCHANGED <<accVars, ordVars, omsOrdVars, thrVars, callerVars>>
  \/ Oms_exec_process /\ UNCHANGED <<accVars, ordVars, omsOrdVars, thrVars, callerVars>>

----------------------------------------------------------------------------
(* throttle *)

Threads == 1..NThreads

\* [t for t in _calls if time()-t <= 1]
Recent(cs, tm) == SelectSeq(cs, LAMBDA t : tm - t <= TicksPerSecond)

Blocked_offByOne(cs, r) == Len(cs) > r

\* the loop condition len(_calls) >= rate
Blocked(cs, r) == Len(cs) >= r

ThrIdle ==
  /\ now = 0
  /\ rate = 1
  /\ threads = {}
  /\ calls = <<>>
  /\ tpc = [t \in Threads |-> "idle"]
  /\ tlocal = [t \in Threads |-> <<>>]
  /\ stamps = <<>>
  /\ started = <<>>

ThrInit(ths) ==
  /\ now = 0
  /\ rate \in 1..MaxRate
  /\ threads = ths
  /\ calls = <<>>
  /\ tpc = [t \in Threads |-> "idle"]
  /\ tlocal = [t \in Threads |-> <<>>]
  /\ stamps = <<>>
  /\ started = <<>>

\* the calls entered and not yet recorded
InFlight == Cardinality({ t \in Threads : tpc[t] # "idle" })

\* a context calls a throttled operation
wrapper_call(t) ==
  /\ tpc[t] = "idle"
  /\ Len(stamps) + InFlight < MaxCalls
  /\ tpc' = [tpc EXCEPT ![t] = "read"]
  /\ UNCHANGED <<now, rate, threads, calls, tlocal, stamps, started>>

\* lines 19 and 21, right-hand side: build the list of recent timestamps
wrapper_read(t) ==
  /\ tpc[t] = "read"
  /\ tlocal' = [tlocal EXCEPT ![t] = Recent(calls, now)]
  /\ tpc' = [tpc EXCEPT ![t] = "store"]
  /\ UNCHANGED <<now, rate, threads, calls, stamps, started>>

\* lines 19 and 21, assignment: _calls = <that list>
wrapper_store(t) ==
  /\ tpc[t] = "store"
  /\ calls' = tlocal[t]
  /\ tlocal' = [tlocal EXCEPT ![t] = <<>>]
  /\ tpc' = [tpc EXCEPT ![t] = "check"]
  /\ UNCHANGED <<now, rate, threads, stamps, started>>

\* line 20: while len(_calls) >= rate
wrapper_check(t) ==
  /\ tpc[t] = "check"
  /\ tpc' = [tpc EXCEPT ![t] = IF Blocked(calls, rate) THEN "read" ELSE "func"]
  /\ UNCHANGED <<now, rate, threads, calls, tlocal, stamps, started>>

\* line 22: func(*args, **kwargs)
wrapper_func(t) ==
  /\ tpc[t] = "func"
  /\ started' = Append(started, now)
  /\ tpc' = [tpc EXCEPT ![t] = "append"]
  /\ UNCHANGED <<now, rate, threads, calls, tlocal, stamps>>

\* line 23: _calls.append(time())
wrapper_append(t) ==
  /\ tpc[t] = "append"
  /\ calls' = Append(calls, now)
  /\ stamps' = Append(stamps, now)
  /\ tpc' = [tpc EXCEPT ![t] = "idle"]
  /\ UNCHANGED <<now, rate, threads, tlocal, started>>

\* time passes
Tick ==
  /\ now < MaxNow
  /\ now' = now + 1
  /\ UNCHANGED <<rate, threads, calls, tpc, tlocal, stamps, started>>

nonThrVars == <<accVars, ordVars, omsOrdVars, omsExecVars, callerVars>>

ThrNext ==
  \/ (\E t \in threads : wrapper_call(t)) /\ UNCHANGED nonThrVars
  \/ (\E t \in threads : wrapper_read(t)) /\ UNCHANGED nonThrVars
  \/ (\E t \in threads : wrapper_store(t)) /\ UNCHANGED nonThrVars
  \/ (\E t \in threads : wrapper_check(t)) /\ UNCHANGED nonThrVars
  \/ (\E t \in threads : wrapper_func(t)) /\ UNCHANGED nonThrVars
  \/ (\E t \in threads : wrapper_append(t)) /\ UNCHANGED nonThrVars
  \/ Tick /\ UNCHANGED nonThrVars

----------------------------------------------------------------------------
(* Oms: connections (connect, kill, reconnect, on_open, _pinger) *)

\* the keys of _websockets in the order connect() inserts them
Keys == <<"order", ExecTopic, "trade">>

ConnIds == 1..(Len(Keys) * MaxConnects)

NoOp == [n |-> 0, op |-> "none", id |-> "", qty |-> 0]

\* the caller operation numbered n + 1
Op(name, id, qty) == [n |-> lastOp.n + 1, op |-> name, id |-> id, qty |-> qty]

\* the connections the handle map holds
Held(ws) == { ws[k] : k \in DOMAIN ws }

ConnInit ==
  /\ flag = TRUE
  /\ websockets = << >>
  /\ nConn = 0
  /\ connState = [c \in ConnIds |-> "none"]
  /\ pinger = [c \in ConnIds |-> "none"]
  /\ pings = [c \in ConnIds |-> 0]
  /\ killed = {}
  /\ recPc = "idle"

\* wrapper around a throttled operation called by the one caller context:
\* the operation is let through once fewer than rate calls are recent
Admitted == ~Blocked(Recent(calls, now), rate)

\* the wrapper's effect on its list when func returns at time tm
Throttled(tm) ==
  /\ calls' = Append(Recent(calls, now), tm)
  /\ stamps' = Append(stamps, tm)
  /\ started' = Append(started, now)
  /\ now' = tm
  /\ UNCHANGED <<rate, threads, tpc, tlocal>>

\* the body of connect(): three connections are created under the three
\* keys and their threads started (lines 525-560), then sleep(1)
ConnectBody ==
  /\ websockets' = [k \in { Keys[i] : i \in 1..Len(Keys) } |->
                      nConn + CHOOSE i \in 1..Len(Keys) : Keys[i] = k]
  /\ connState' = [c \in ConnIds |->
                     IF c \in (nConn + 1)..(nConn + Len(Keys))
                     THEN "created" ELSE connState[c]]
  /\ nConn' = nConn + Len(Keys)
  /\ Throttled(now + TicksPerSecond)
  /\ UNCHANGED <<flag, pinger, pings, killed>>

\* connect()
Oms_connect ==
  /\ recPc = "idle"
  /\ nConn + Len(Keys) <= Len(Keys) * MaxConnects
  /\ lastOp.n < MaxOps
  /\ Admitted
  /\ ConnectBody
  /\ lastOp' = Op("connect", "", 0)
  /\ UNCHANGED recPc

\* the connections of the handle map in the order of its keys
HeldInOrder(ws) ==
  LET ks == SelectSeq(Keys, LAMBDA k : k \in DOMAIN ws)
  IN  [i \in 1..Len(ks) |-> ws[ks[i]]]

\* the body of kill() (lines 749-757): close() is called on the connections
\* in key order inside one try block; the close of connection number r
\* raises (r past the end: none does) and ends the loop
KillBody(r) ==
  LET cs == HeldInOrder(websockets) IN
  /\ flag' = FALSE
  /\ connState' = [c \in ConnIds |->
       IF \E i \in 1..Len(cs) : cs[i] = c /\ i < r THEN "closed"
       ELSE IF \E i \in 1..Len(cs) : cs[i] = c /\ i = r THEN "closeRaised"
       ELSE connState[c]]
  /\ websockets' = << >>
  /\ killed' = Held(websockets)
  /\ now' = now + TicksPerSecond
  /\ UNCHANGED <<nConn, pinger, pings>>
  /\ UNCHANGED <<rate, threads, calls, tpc, tlocal, stamps, started>>

\* kill()
Oms_kill ==
  /\ recPc = "idle"
  /\ lastOp.n < MaxOps
  /\ \E r \in 1..(Len(HeldInOrder(websockets)) + 1) : KillBody(r)
  /\ lastOp' = Op("kill", "", 0)
  /\ UNCHANGED recPc

\* reconnect(), first half: self.kill(); sleep(1)
Oms_reconnect ==
  /\ recPc = "idle"
  /\ nConn + Len(Keys) <= Len(Keys) * MaxConnects
  /\ lastOp.n < MaxOps
  /\ \E r \in 1..(Len(HeldInOrder(websockets)) + 1) : KillBody(r)
  /\ lastOp' = Op("reconnect", "", 0)
  /\ recPc' = "connect"

\* reconnect(), second half: self.connect()
Oms_reconnect_connect ==
  /\ recPc = "connect"
  /\ Admitted
  /\ ConnectBody
  /\ recPc' = "idle"
  /\ UNCHANGED lastOp

\* a connection opens: the on_open handler authenticates, subscribes and
\* starts the _pinger thread
Conn_open(c) ==
  /\ connState[c] = "created"
  /\ connState' = [connState EXCEPT ![c] = "open"]
  /\ pinger' = [pinger EXCEPT ![c] = "running"]
  /\ UNCHANGED <<flag, websockets, nConn, pings, killed, recPc, lastOp>>
  /\ UNCHANGED thrVars

\* _pinger, one pass of `while self._flag`: send a ping and sleep(20), or
\* leave the loop; a send on a closed connection raises and ends the thread
Pinger_step(c) ==
  /\ pinger[c] = "running"
  /\ IF flag /\ connState[c] = "open"
     THEN /\ pings[c] < MaxPings
          /\ pings' = [pings EXCEPT ![c] = pings[c] + 1]
          /\ UNCHANGED pinger
     ELSE /\ pinger' = [pinger EXCEPT ![c] = "exited"]
          /\ UNCHANGED pings
  /\ UNCHANGED <<flag, websockets, nConn, connState, killed, recPc, lastOp>>
  /\ UNCHANGED thrVars

----------------------------------------------------------------------------
(* Oms: caller operations (create_order, amend_order, cancel_order,       *)
(* order_status, remove_status)                                           *)

\* the value API_RATE has when the class body is executed and the decorators
\* @throttle(rate=API_RATE) are applied
API_RATE_default == 10

\* the api_rate arguments given to the constructor
ApiRates == {1, API_RATE_default}

\* f"{self._uuid}-{self._order_link_id_n}"
GenId(n) == "u-" \o ToString(n)

\* the quantities the caller asks for
CreateQtys == {0, 1}

NoArgs == [orderLinkId |-> "", qty |-> 0]

Request(op, sym, cat, id, oid, qty) ==
  [op |-> op, symbol |-> sym, category |-> cat, orderLinkId |-> id,
   orderId |-> oid, qty |-> qty, signal |-> position_event]

\* self._websockets["trade"].send(...): "sent", or the exception raised when
\* the map has no such key or the connection is not open
TradeSend ==
  IF "trade" \notin DOMAIN websockets THEN "KeyError"
  ELSE IF connState[websockets["trade"]] # "open"
       THEN "WebSocketConnectionClosedException"
       ELSE "sent"

CliInit ==
  /\ API_RATE \in ApiRates
  /\ order_link_id_n = 0
  /\ crPc = "idle"
  /\ crArgs = NoArgs
  /\ sent = <<>>
  /\ statusOut = "none"
  /\ callOut = "none"
  /\ lastOp = NoOp

\* a message of the order-entry channel: a result-code envelope
TradeMsg(code) == [retCode |-> code]

\* the n-th inbound message, given to the handler of channel ch while the
\* Event was as signal says
Inbound(n, ch, msg) ==
  [n |-> n, ch |-> ch, msg |-> msg, signal |-> position_event]

InInit ==
  /\ inbound = [n |-> 0, ch |-> "none", msg |-> TradeMsg(0), signal |-> FALSE]
  /\ tradeOut = "none"

\* no context is inside create_order
ConcInit ==
  /\ cpc = [t \in Threads |-> "idle"]
  /\ clocal = [t \in Threads |-> [id |-> "", n |-> 0]]

\* the reference engine starts as the engine does
RefInit ==
  ref = [st |-> NewAcc(maker, taker), todo |-> <<>>, fills |-> 0, from |-> 0]

\* the caller has not built or used an engine
CallerInit ==
  /\ CliInit /\ API_RATE = API_RATE_default
  /\ ConnInit
  /\ InInit
  /\ ConcInit
  /\ RefInit

\* the throttle as the class body of Oms leaves it
OmsThrInit ==
  /\ now = 0
  /\ rate = API_RATE_default
  /\ threads = {}
  /\ calls = <<>>
  /\ tpc = [t \in Threads |-> "idle"]
  /\ tlocal = [t \in Threads |-> <<>>]
  /\ stamps = <<>>
  /\ started = <<>>

\* create_order up to the test of the event (lines 579-590, 605-607); the
\* wrapper has filtered its list and let the call through
Oms_create_order(hasId, given, qty) ==
  /\ crPc = "idle" /\ recPc = "idle"
  /\ lastOp.n < MaxOps
  /\ Admitted
  /\ LET id == IF hasId THEN given ELSE GenId(order_link_id_n) IN
       /\ order_link_id_n' = IF hasId THEN order_link_id_n
                             ELSE order_link_id_n + 1
       /\ lastOp' = Op("create", id, qty)
       /\ started' = Append(started, now)
       /\ IF position_event
          THEN /\ order_status' = Put(order_status, id, "Unsubmitted")
               /\ calls' = Append(Recent(calls, now), now)
               /\ stamps' = Append(stamps, now)
               /\ callOut' = "returned"
               /\ UNCHANGED <<crPc, crArgs>>
          ELSE /\ order_status' = Put(order_status, id, "")
               /\ calls' = Recent(calls, now)
               /\ crPc' = "sending"
               /\ crArgs' = [orderLinkId |-> id, qty |-> qty]
               /\ UNCHANGED <<stamps, callOut>>
  /\ UNCHANGED <<API_RATE, sent, statusOut>>
  /\ UNCHANGED <<now, rate, threads, tpc, tlocal>>
  /\ UNCHANGED <<active_orders, ordPc, orderTodo, ordOut>>

\* create_order, the branch that sends (lines 592-604), and the wrapper's
\* append; an exception raised by the send leaves create_order and the
\* wrapper, which then appends nothing
Oms_create_send ==
  /\ crPc = "sending"
  /\ IF TradeSend = "sent"
     THEN /\ sent' = Append(sent, Request("order.create", Symbol, Category,
                                          crArgs.orderLinkId, "", crArgs.qty))
          /\ order_status' = IF crArgs.qty = 0
                             THEN Put(order_status, crArgs.orderLinkId,
                                      "Unsubmitted")
                             ELSE order_status
          /\ calls' = Append(calls, now)
          /\ stamps' = Append(stamps, now)
          /\ callOut' = "returned"
     ELSE /\ callOut' = TradeSend
          /\ UNCHANGED <<sent, order_status, calls, stamps>>
  /\ crPc' = "idle"
  /\ crArgs' = NoArgs
  /\ UNCHANGED <<API_RATE, order_link_id_n, statusOut, lastOp>>
  /\ UNCHANGED <<now, rate, threads, tpc, tlocal, started>>
  /\ UNCHANGED <<active_orders, ordPc, orderTodo, ordOut>>

\* the quantity of a request whose fields hold no "qty"
NoQty == 0 - 1

\* the fields passed to amend_order: a quantity, or only a price
AmendQtys == {0, 1, NoQty}

\* amend_order (lines 623-644): the request is sent, then args["qty"] is
\* read; an exception leaves amend_order and the wrapper, which then appends
\* nothing
Oms_amend_order(id, qty) ==
  /\ crPc = "idle" /\ recPc = "idle"
  /\ lastOp.n < MaxOps
  /\ Admitted
  /\ lastOp' = Op("amend", id, qty)
  /\ started' = Append(started, now)
  /\ IF TradeSend = "sent"
     THEN /\ sent' = Append(sent, Request("order.amend", Symbol, Category,
                                          id, "", qty))
          /\ IF qty = NoQty
             THEN /\ callOut' = "KeyError"
                  /\ calls' = Recent(calls, now)
                  /\ UNCHANGED <<order_status, stamps>>
             ELSE /\ order_status' = IF qty = 0
                                     THEN Put(order_status, id, "Unsubmitted")
                                     ELSE order_status
                  /\ calls' = Append(Recent(calls, now), now)
                  /\ stamps' = Append(stamps, now)
                  /\ callOut' = "returned"
     ELSE /\ callOut' = TradeSend
          /\ calls' = Recent(calls, now)
          /\ UNCHANGED <<sent, order_status, stamps>>
  /\ UNCHANGED <<API_RATE, order_link_id_n, crPc, crArgs, statusOut>>
  /\ UNCHANGED <<now, rate, threads, tpc, tlocal>>
  /\ UNCHANGED <<active_orders, ordPc, orderTodo, ordOut>>

\* cancel_order (lines 658-678): a KeyError of the try block is swallowed,
\* any other exception leaves cancel_order and the wrapper; otherwise the
\* wrapper records the call whatever the body did
Oms_cancel_order(id) ==
  /\ crPc = "idle" /\ recPc = "idle"
  /\ lastOp.n < MaxOps
  /\ Admitted
  /\ lastOp' = Op("cancel", id, 0)
  /\ started' = Append(started, now)
  /\ IF id \in DOMAIN active_orders
        /\ TradeSend = "WebSocketConnectionClosedException"
     THEN /\ callOut' = TradeSend
          /\ calls' = Recent(calls, now)
          /\ UNCHANGED <<sent, stamps>>
     ELSE /\ sent' = IF id \in DOMAIN active_orders /\ TradeSend = "sent"
                     THEN Append(sent, Request("order.cancel", "ADAUSDT",
                            "linear", "", active_orders[id].orderId, 0))
                     ELSE sent
          /\ calls' = Append(Recent(calls, now), now)
          /\ stamps' = Append(stamps, now)
          /\ callOut' = "returned"
  /\ UNCHANGED <<API_RATE, order_link_id_n, crPc, crArgs, statusOut>>
  /\ UNCHANGED <<now, rate, threads, tpc, tlocal>>
  /\ UNCHANGED omsOrdVars

\* the orders in which list(self._active_orders.keys()) may list the keys
KeyOrders(f) ==
  { o \in [1..Cardinality(DOMAIN f) -> DOMAIN f] :
      \A i, j \in 1..Cardinality(DOMAIN f) : i # j => o[i] # o[j] }

\* n copies of x appended to the list q
RECURSIVE AppendTimes(_, _, _)
AppendTimes(q, x, n) == IF n <= 0 THEN q ELSE AppendTimes(Append(q, x), x, n - 1)

\* cancel_all (lines 688-692): cancel_order for every key of the active set,
\* each call through the wrapper; the first exception a call lets through
\* ends the loop
Oms_cancel_all(order) ==
  /\ crPc = "idle" /\ recPc = "idle"
  /\ lastOp.n < MaxOps
  /\ ~Blocked(AppendTimes(Recent(calls, now), now, Len(order) - 1), rate)
  /\ lastOp' = Op("cancel_all", "", 0)
  /\ IF order = <<>>
     THEN /\ callOut' = "returned"
          /\ UNCHANGED <<sent, calls, stamps, started>>
     ELSE IF TradeSend = "WebSocketConnectionClosedException"
     THEN /\ callOut' = TradeSend
          /\ calls' = Recent(calls, now)
          /\ started' = Append(started, now)
          /\ UNCHANGED <<sent, stamps>>
     ELSE /\ sent' = IF TradeSend = "sent"
                     THEN sent \o [i \in 1..Len(order) |->
                            Request("order.cancel", "ADAUSDT", "linear", "",
                                    active_orders[order[i]].orderId, 0)]
                     ELSE sent
          /\ calls' = AppendTimes(Recent(calls, now), now, Len(order))
          /\ stamps' = AppendTimes(stamps, now, Len(order))
          /\ started' = AppendTimes(started, now, Len(order))
          /\ callOut' = "returned"
  /\ UNCHANGED <<API_RATE, order_link_id_n, crPc, crArgs, statusOut>>
  /\ UNCHANGED <<now, rate, threads, tpc, tlocal>>
  /\ UNCHANGED omsOrdVars

\* order_status (line 713)
Oms_order_status(id) ==
  /\ crPc = "idle" /\ recPc = "idle"
  /\ lastOp.n < MaxOps
  /\ lastOp' = Op("order_status", id, 0)
  /\ statusOut' = IF id \in DOMAIN order_status THEN order_status[id]
                  ELSE "KeyError"
  /\ callOut' = IF id \in DOMAIN order_status THEN "returned" ELSE "KeyError"
  /\ UNCHANGED <<API_RATE, order_link_id_n, crPc, crArgs, sent>>
  /\ UNCHANGED thrVars
  /\ UNCHANGED omsOrdVars

\* remove_status (line 725)
Oms_remove_status(id) ==
  /\ crPc = "idle" /\ recPc = "idle"
  /\ lastOp.n < MaxOps
  /\ lastOp' = Op("remove_status", id, 0)
  /\ order_status' = Pop(order_status, id)
  /\ callOut' = "returned"
  /\ UNCHANGED <<API_RATE, order_link_id_n, crPc, crArgs, sent, statusOut>>
  /\ UNCHANGED thrVars
  /\ UNCHANGED <<active_orders, ordPc, orderTodo, ordOut>>

----------------------------------------------------------------------------
(* SessionAcc: the specification *)

OrdIdle ==
  /\ universe = <<>>
  /\ pending = {}
  /\ chrono = TRUE
  /\ shuffled = FALSE
  /\ batches = 0

AccNext ==
  \/ /\ n_matched < MaxMatched
     /\ \E n \in { k \in {0} \cup BatchLens : k <= MaxQueue - Len(buys) - Len(sells) } :
          \E msg \in ExecMsgsOfFills[n] : Acc_on_exec_message(msg)
     /\ UNCHANGED <<ordVars, omsOrdVars, omsExecVars, thrVars, callerVars>>
  \/ Acc_match /\ UNCHANGED <<ordVars, omsOrdVars, omsExecVars, thrVars, callerVars>>

InitAcc == AccInit /\ OrdIdle /\ OmsOrdInit /\ OmsExecInit /\ ThrIdle
  /\ CallerInit

SpecAcc == InitAcc /\ [][AccNext]_vars

----------------------------------------------------------------------------
(* Delivery-order experiment: a fixed set of fills with distinct execution *)
(* times 1..MaxFills is split into batches; the batches, and the fills of  *)
(* a batch, arrive in any order.                                           *)

\* the fill executed at time t
OrdFills(t) ==
  { ExecEvent(Symbol, Category, sd, p, q, p = 100, t, "none") :
      sd \in Sides, p \in Prices, q \in 1..MaxQty }

\* the sequences that list each element of the set S once
RECURSIVE Orderings(_)
Orderings(S) ==
  IF S = {} THEN { <<>> }
  ELSE UNION { { <<x>> \o o : o \in Orderings(S \ {x}) } : x \in S }

InitOrd ==
  /\ AccInit
  /\ universe \in { u \in [1..MaxFills -> UNION { OrdFills(t) : t \in 1..MaxFills }] :
                       \A t \in 1..MaxFills : u[t].execTime = t }
  /\ pending = 1..MaxFills
  /\ chrono = TRUE
  /\ shuffled = FALSE
  /\ batches = 0
  /\ OmsOrdInit
  /\ OmsExecInit
  /\ ThrIdle
  /\ CallerInit

\* one message of the execution stream carrying the fills executed at the
\* times listed in order
Ord_deliver(order) ==
  /\ Acc_on_exec_message(DataMsg(AccTopic, [i \in 1..Len(order) |-> universe[order[i]]]))
  /\ pending' = pending \ { order[i] : i \in 1..Len(order) }
  /\ chrono' = (chrono /\ \A i \in 1..Len(order) : \A u \in pending' : order[i] < u)
  /\ shuffled' = (shuffled \/ \E i \in 1..Len(order) - 1 : order[i] > order[i + 1])
  /\ batches' = batches + 1
  /\ UNCHANGED universe

OrdNext ==
  \/ /\ \E S \in (SUBSET pending) \ {{}} :
          \E order \in Orderings(S) : Ord_deliver(order)
     /\ UNCHANGED <<omsOrdVars, omsExecVars, thrVars, callerVars>>
  \/ Acc_match /\ UNCHANGED <<ordVars, omsOrdVars, omsExecVars, thrVars, callerVars>>

SpecOrd == InitOrd /\ [][OrdNext]_vars

InitOms == AccInit /\ OrdIdle /\ OmsOrdInit /\ OmsExecInit /\ ThrIdle
  /\ CallerInit

SpecOmsOrders == InitOms /\ [][OmsOrdNext]_vars

SpecOmsExec == InitOms /\ [][OmsExecNext]_vars

\* one context issuing its calls one after another
InitThrottleSeq == AccInit /\ OrdIdle /\ OmsOrdInit /\ OmsExecInit /\ ThrInit({1})
  /\ CallerInit

SpecThrottleSeq == InitThrottleSeq /\ [][ThrNext]_vars

\* several contexts calling concurrently
InitThrottle == AccInit /\ OrdIdle /\ OmsOrdInit /\ OmsExecInit /\ ThrInit(Threads)
  /\ CallerInit

SpecThrottle == InitThrottle /\ [][ThrNext]_vars

----------------------------------------------------------------------------
(* Oms: the engine with its caller and its two stream workers *)

\* the order events and fills the streams deliver while the caller works
CliOrderMsgs ==
  { DataMsg("order", <<OrderEvent(Symbol, Category, "a", "New", 1, 1, "none")>>),
    DataMsg("order", <<OrderEvent(Symbol, Category, "a", "Filled", 0, 2, "none")>>) }

CliExecMsgs ==
  { DataMsg(ExecTopic, <<ExecEvent(Symbol, Category, sd, 100, 1, TRUE, 1, "none")>>) :
      sd \in Sides }

callerOtherVars == <<accVars, ordVars, omsExecVars, connVars, inVars,
                     concVars, refVars>>

OmsCliNext ==
  \/ /\ \E hasId \in BOOLEAN, given \in LinkIds, qty \in CreateQtys :
          Oms_create_order(hasId, given, qty)
     /\ UNCHANGED callerOtherVars
  \/ Oms_create_send /\ UNCHANGED callerOtherVars
  \/ /\ \E id \in LinkIds, qty \in AmendQtys : Oms_amend_order(id, qty)
     /\ UNCHANGED callerOtherVars
  \/ (\E id \in LinkIds : Oms_cancel_order(id)) /\ UNCHANGED callerOtherVars
  \/ /\ \E order \in KeyOrders(active_orders) : Oms_cancel_all(order)
     /\ UNCHANGED callerOtherVars
  \/ (\E id \in LinkIds : Oms_order_status(id)) /\ UNCHANGED callerOtherVars
  \/ (\E id \in LinkIds : Oms_remove_status(id)) /\ UNCHANGED callerOtherVars
  \/ /\ \E msg \in CliOrderMsgs : Oms_on_order_message(msg)
     /\ UNCHANGED <<accVars, ordVars, omsExecVars, thrVars, callerVars>>
  \/ Oms_order_apply /\ UNCHANGED <<accVars, ordVars, omsExecVars, thrVars, callerVars>>
  \/ /\ position \in (1 - MaxCliPosition)..(MaxCliPosition - 1)
     /\ \E msg \in CliExecMsgs : Oms_on_exec_message(msg)
     /\ UNCHANGED <<accVars, ordVars, omsOrdVars, thrVars, callerVars>>
  \/ Oms_exec_process /\ UNCHANGED <<accVars, ordVars, omsOrdVars, thrVars, callerVars>>

\* the engine as Oms(symbol, category, api_rate) leaves it
Constructed ==
  /\ OmsThrInit /\ CliInit /\ ConnInit

\* the engine after Oms(symbol, category, api_rate), connect() and the
\* opening of its three connections
ConnectedAndOpen ==
  /\ now = TicksPerSecond
  /\ rate = API_RATE_default
  /\ threads = {}
  /\ calls = <<TicksPerSecond>>
  /\ tpc = [t \in Threads |-> "idle"]
  /\ tlocal = [t \in Threads |-> <<>>]
  /\ stamps = <<TicksPerSecond>>
  /\ started = <<0>>
  /\ API_RATE \in ApiRates
  /\ order_link_id_n = 0
  /\ crPc = "idle"
  /\ crArgs = NoArgs
  /\ sent = <<>>
  /\ statusOut = "none"
  /\ callOut = "returned"
  /\ lastOp = [n |-> 1, op |-> "connect", id |-> "", qty |-> 0]
  /\ flag = TRUE
  /\ websockets = [k \in { Keys[i] : i \in 1..Len(Keys) } |->
                     CHOOSE i \in 1..Len(Keys) : Keys[i] = k]
  /\ nConn = Len(Keys)
  /\ connState = [c \in ConnIds |-> IF c <= Len(Keys) THEN "open" ELSE "none"]
  /\ pinger = [c \in ConnIds |-> IF c <= Len(Keys) THEN "running" ELSE "none"]
  /\ pings = [c \in ConnIds |-> 0]
  /\ killed = {}
  /\ recPc = "idle"

\* the caller works on an engine it has built, connected or not; what it
\* does takes place within one second
InitOmsCli ==
  /\ AccInit /\ OrdIdle /\ OmsOrdInit /\ OmsExecInit /\ InInit
  /\ ConcInit /\ RefInit
  /\ (Constructed \/ ConnectedAndOpen)

SpecOmsCli == InitOmsCli /\ [][OmsCliNext]_vars

----------------------------------------------------------------------------
(* The inbound side: the four message handlers, each on its connection *)

RetCodes == {0, 10001}

InGoodOrders ==
  { OrderEvent(Symbol, Category, "a", "New", 1, 1, "none"),
    OrderEvent(Symbol, Category, "a", "Filled", 0, 1, "none") }

InGoodFills ==
  { ExecEvent(Symbol, Category, "Buy", 100, 1, TRUE, 1, "none"),
    ExecEvent(Symbol, Category, "Sell", 110, 1, FALSE, 1, "none") }

\* the batches of one event, and those of a complete event followed or
\* preceded in time by one that lacks a key
InBatches(good, malformed) ==
  { <<e>> : e \in good \cup malformed }
    \cup { <<e, f>> : e \in good, f \in malformed }

InAcks == { AckMsg(ok) : ok \in BOOLEAN }

InOrderMsgs ==
  { DataMsg("order", d) : d \in InBatches(InGoodOrders, MalformedOrders) }
    \cup InAcks

\* the fills lacking a key: those of MalformedFills and one that lacks a key
\* only the accounting engine reads
InMalformedFills ==
  MalformedFills
    \cup { ExecEvent(Symbol, Category, "Buy", 100, 1, TRUE, 2, "execPrice") }

InExecMsgs ==
  { DataMsg(ExecTopic, d) : d \in InBatches(InGoodFills, InMalformedFills) }
    \cup InAcks

\* _on_trade_message (lines 468-470)
Oms_on_trade_message(m) ==
  /\ tradeOut' = IF m.retCode # 0 THEN "ConnectionError" ELSE "returned"

IsStream(ch) == ch \in {"order", "exec", "acc"}

InNext ==
  \/ /\ inbound.n < MaxInbound
     /\ \E msg \in InOrderMsgs :
          /\ Oms_on_order_message(msg)
          /\ inbound' = Inbound(inbound.n + 1, "order", msg)
     /\ UNCHANGED <<accVars, ordVars, omsExecVars, thrVars, cliVars, connVars,
                    tradeOut, concVars, refVars>>
  \/ /\ Oms_order_apply
     /\ UNCHANGED <<accVars, ordVars, omsExecVars, thrVars, callerVars>>
  \/ /\ inbound.n < MaxInbound
     /\ \E msg \in InExecMsgs :
          /\ Oms_on_exec_message(msg)
          /\ inbound' = Inbound(inbound.n + 1, "exec", msg)
     /\ UNCHANGED <<accVars, ordVars, omsOrdVars, thrVars, cliVars, connVars,
                    tradeOut, concVars, refVars>>
  \/ /\ Oms_exec_process
     /\ UNCHANGED <<accVars, ordVars, omsOrdVars, thrVars, callerVars>>
  \/ /\ inbound.n < MaxInbound
     /\ \E msg \in InExecMsgs :
          /\ Acc_on_exec_message(msg)
          /\ inbound' = Inbound(inbound.n + 1, "acc", msg)
     /\ UNCHANGED <<ordVars, omsOrdVars, omsExecVars, thrVars, cliVars, connVars,
                    tradeOut, concVars, refVars>>
  \/ /\ Acc_match
     /\ UNCHANGED <<ordVars, omsOrdVars, omsExecVars, thrVars, callerVars>>
  \/ /\ inbound.n < MaxInbound
     /\ \E code \in RetCodes :
          /\ Oms_on_trade_message(TradeMsg(code))
          /\ inbound' = Inbound(inbound.n + 1, "trade", TradeMsg(code))
     /\ UNCHANGED <<accVars, ordVars, omsOrdVars, omsExecVars, thrVars,
                    cliVars, connVars, concVars, refVars>>

InitIn ==
  /\ AccInit /\ OrdIdle /\ OmsOrdInit /\ OmsExecInit /\ OmsThrInit
  /\ CallerInit

SpecIn == InitIn /\ [][InNext]_vars

----------------------------------------------------------------------------
(* Oms: create_order called without a link-id from several contexts at once. *)
(* Each context goes through the wrapper of throttle and then through the    *)
(* body of create_order; the interpreter may switch contexts between any two *)
(* of the steps below.                                                       *)

\* the quantity every such call asks for
ConcQty == 1

\* line 22 of throttle.py: the wrapper enters create_order
Create_enter(t) ==
  /\ wrapper_func(t)
  /\ cpc[t] = "idle"
  /\ cpc' = [cpc EXCEPT ![t] = "gen"]
  /\ UNCHANGED <<clocal, order_link_id_n, order_status, sent>>

\* line 584: args["orderLinkId"] = f"{self._uuid}-{self._order_link_id_n}"
Create_gen(t) ==
  /\ cpc[t] = "gen"
  /\ clocal' = [clocal EXCEPT ![t].id = GenId(order_link_id_n)]
  /\ cpc' = [cpc EXCEPT ![t] = "load"]
  /\ UNCHANGED <<order_link_id_n, order_status, sent>>

\* line 585, right-hand side: self._order_link_id_n + 1 is computed
Create_load(t) ==
  /\ cpc[t] = "load"
  /\ clocal' = [clocal EXCEPT ![t].n = order_link_id_n]
  /\ cpc' = [cpc EXCEPT ![t] = "store"]
  /\ UNCHANGED <<order_link_id_n, order_status, sent>>

\* line 585, assignment: the sum is stored in self._order_link_id_n
Create_store(t) ==
  /\ cpc[t] = "store"
  /\ order_link_id_n' = clocal[t].n + 1
  /\ cpc' = [cpc EXCEPT ![t] = "rest"]
  /\ UNCHANGED <<clocal, order_status, sent>>

\* lines 587-607: the status "" is recorded, the event tested and the order
\* sent or marked "Unsubmitted"
Create_rest(t) ==
  /\ cpc[t] = "rest"
  /\ IF position_event
     THEN /\ order_status' = Put(order_status, clocal[t].id, "Unsubmitted")
          /\ UNCHANGED sent
     ELSE /\ order_status' = Put(order_status, clocal[t].id, "")
          /\ sent' = Append(sent, Request("order.create", Symbol, Category,
                                          clocal[t].id, "", ConcQty))
  /\ cpc' = [cpc EXCEPT ![t] = "done"]
  /\ UNCHANGED <<clocal, order_link_id_n>>

\* line 23 of throttle.py, once create_order has returned
Create_return(t) ==
  /\ wrapper_append(t)
  /\ cpc[t] = "done"
  /\ cpc' = [cpc EXCEPT ![t] = "idle"]
  /\ UNCHANGED <<clocal, order_link_id_n, order_status, sent>>

concOtherVars ==
  <<accVars, ordVars, omsExecVars, connVars, inVars, refVars,
    API_RATE, crPc, crArgs, statusOut, callOut, lastOp,
    active_orders, ordPc, orderTodo, ordOut>>

concBodyVars == <<concOtherVars, thrVars>>

ConcNext ==
  \/ /\ \E t \in threads : wrapper_call(t)
     /\ UNCHANGED <<concOtherVars, concVars, order_link_id_n, order_status, sent>>
  \/ /\ \E t \in threads : wrapper_read(t)
     /\ UNCHANGED <<concOtherVars, concVars, order_link_id_n, order_status, sent>>
  \/ /\ \E t \in threads : wrapper_store(t)
     /\ UNCHANGED <<concOtherVars, concVars, order_link_id_n, order_status, sent>>
  \/ /\ \E t \in threads : wrapper_check(t)
     /\ UNCHANGED <<concOtherVars, concVars, order_link_id_n, order_status, sent>>
  \/ (\E t \in threads : Create_enter(t)) /\ UNCHANGED concOtherVars
  \/ (\E t \in threads : Create_gen(t)) /\ UNCHANGED concBodyVars
  \/ (\E t \in threads : Create_load(t)) /\ UNCHANGED concBodyVars
  \/ (\E t \in threads : Create_store(t)) /\ UNCHANGED concBodyVars
  \/ (\E t \in threads : Create_rest(t)) /\ UNCHANGED concBodyVars
  \/ (\E t \in threads : Create_return(t)) /\ UNCHANGED concOtherVars

\* a connected engine whose create_order is called from every context
InitConc ==
  /\ AccInit /\ OrdIdle /\ OmsOrdInit /\ OmsExecInit /\ InInit
  /\ ConcInit /\ RefInit
  /\ now = TicksPerSecond
  /\ rate = API_RATE_default
  /\ threads = Threads
  /\ calls = <<TicksPerSecond>>
  /\ tpc = [t \in Threads |-> "idle"]
  /\ tlocal = [t \in Threads |-> <<>>]
  /\ stamps = <<TicksPerSecond>>
  /\ started = <<0>>
  /\ API_RATE = API_RATE_default
  /\ order_link_id_n = 0
  /\ crPc = "idle"
  /\ crArgs = NoArgs
  /\ sent = <<>>
  /\ statusOut = "none"
  /\ callOut = "returned"
  /\ lastOp = [n |-> 1, op |-> "connect", id |-> "", qty |-> 0]
  /\ flag = TRUE
  /\ websockets = [k \in { Keys[i] : i \in 1..Len(Keys) } |->
                     CHOOSE i \in 1..Len(Keys) : Keys[i] = k]
  /\ nConn = Len(Keys)
  /\ connState = [c \in ConnIds |-> IF c <= Len(Keys) THEN "open" ELSE "none"]
  /\ pinger = [c \in ConnIds |-> IF c <= Len(Keys) THEN "running" ELSE "none"]
  /\ pings = [c \in ConnIds |-> 0]
  /\ killed = {}
  /\ recPc = "idle"

SpecConc == InitConc /\ [][ConcNext]_vars

----------------------------------------------------------------------------
(* The order stream, batch by batch: each message is remembered while the *)
(* handler works on it                                                     *)

\* the batches whose tracked events carry distinct update times
BatchMsgs ==
  { m \in OrderMsgs :
      m.hasTopic =>
        \A i, j \in 1..Len(m.data) :
          (i # j /\ IsTracked(m.data[i]) /\ IsTracked(m.data[j]))
            => m.data[i].updatedTime # m.data[j].updatedTime }

OrdBatchNext ==
  \/ /\ inbound.n < MaxBatches
     /\ \E msg \in BatchMsgs :
          /\ Oms_on_order_message(msg)
          /\ inbound' = Inbound(inbound.n + 1, "order", msg)
     /\ UNCHANGED <<accVars, ordVars, omsExecVars, thrVars, cliVars, connVars,
                    tradeOut, concVars, refVars>>
  \/ /\ Oms_order_apply
     /\ UNCHANGED <<accVars, ordVars, omsExecVars, thrVars, callerVars>>

SpecOrdBatch == InitIn /\ [][OrdBatchNext]_vars

----------------------------------------------------------------------------
(* SessionAcc next to a reference engine that is given the same messages   *)
(* and runs the matching loop after every single fill                      *)

\* the position in d of the event the reference takes first: the earliest
\* execution time, the first delivered among equal times
FirstInTime(d) ==
  CHOOSE i \in 1..Len(d) :
    /\ \A j \in 1..Len(d) : d[i].execTime <= d[j].execTime
    /\ \A j \in 1..(i - 1) : d[j].execTime > d[i].execTime

Without(d, i) == SubSeq(d, 1, i - 1) \o SubSeq(d, i + 1, Len(d))

\* the events of d in execution-time order
RECURSIVE InTimeOrder(_)
InTimeOrder(d) ==
  IF d = <<>> THEN <<>>
  ELSE <<d[FirstInTime(d)]>> \o InTimeOrder(Without(d, FirstInTime(d)))

\* the fill e at the back of its queue
RefAppend(st, e) ==
  IF e.side = "Buy"
  THEN [st EXCEPT !.buys = Append(@, Fill(e))]
  ELSE [st EXCEPT !.sells = Append(@, Fill(e))]

\* the reference engine after the fills d: append one, match, append the next
RECURSIVE RefRun(_, _)
RefRun(st, d) ==
  IF d = <<>> THEN st
  ELSE RefRun(MatchLoop(RefAppend(st, Head(d))), Tail(d))

\* the matches the loop makes when started in st, in order
RECURSIVE LoopLog(_)
LoopLog(st) ==
  IF st.buys # <<>> /\ st.sells # <<>>
  THEN <<MatchLocals(st)>> \o LoopLog(MatchOnce(st))
  ELSE <<>>

\* the matches the reference engine makes for the fills d, in order
RECURSIVE RefLog(_, _)
RefLog(st, d) ==
  IF d = <<>> THEN <<>>
  ELSE LoopLog(RefAppend(st, Head(d)))
         \o RefLog(MatchLoop(RefAppend(st, Head(d))), Tail(d))

\* the fills the two engines are fed
RefEvents ==
  { e \in TrackedFills :
      /\ e.isMaker = (e.execPrice = 100)
      /\ e.side = "Sell" => e.execPrice = 110 }
    \cup { ExecEvent(Symbol, Category, "Buy", 100, 0, TRUE, 1, "none"),
           ExecEvent(OtherSymbol, Category, "Buy", 100, 1, TRUE, 1, "none"),
           ExecEvent(Symbol, Category, "Buy", 100, 1, TRUE, 2, "side") }

RefMsgs ==
  { DataMsg(AccTopic, d) :
      d \in UNION { BatchesOfLen(RefEvents, n) : n \in BatchLens } }

\* a message is given to both engines; a batch the engine abandons with a
\* KeyError is no batch of fills, and the reference takes over the state the
\* engine is left in
Ref_on_exec_message(msg) ==
  /\ Acc_on_exec_message(msg)
  /\ LET r == AccIntake(msg, buys, sells)
         d == InTimeOrder(SelectTracked(msg.data))
     IN  ref' = IF r.end = "ok"
                THEN [st |-> RefRun(ref.st, d), todo |-> RefLog(ref.st, d),
                      fills |-> Len(d), from |-> n_matched]
                ELSE IF r.end = "skip"
                THEN [ref EXCEPT !.fills = 0, !.from = n_matched]
                ELSE [st |-> [AccState EXCEPT !.buys = r.buys, !.sells = r.sells],
                      todo |-> <<>>, fills |-> 0, from |-> n_matched]

\* the engine makes a match; the reference has made its next one
Ref_match ==
  /\ Acc_match
  /\ ref' = [ref EXCEPT !.todo = IF @ = <<>> THEN <<>> ELSE Tail(@)]

RefNext ==
  \/ /\ n_matched < MaxMatched
     /\ \E msg \in RefMsgs :
          /\ Fills(msg.data) <= MaxRefQueue - Len(buys) - Len(sells)
          /\ Ref_on_exec_message(msg)
     /\ UNCHANGED <<ordVars, omsOrdVars, omsExecVars, thrVars, cliVars,
                    connVars, inVars, concVars>>
  \/ /\ Ref_match
     /\ UNCHANGED <<ordVars, omsOrdVars, omsExecVars, thrVars, cliVars,
                    connVars, inVars, concVars>>

SpecRef == InitAcc /\ [][RefNext]_vars

\* the connections of the engine: the caller connects, kills and reconnects
\* while connections open and pingers run
OmsConnNext ==
  \/ /\ Oms_connect
     /\ UNCHANGED <<API_RATE, order_link_id_n, crPc, crArgs, sent, statusOut,
                    callOut>>
     /\ UNCHANGED <<accVars, ordVars, omsOrdVars, omsExecVars, inVars,
                    concVars, refVars>>
  \/ /\ Oms_kill
     /\ UNCHANGED <<API_RATE, order_link_id_n, crPc, crArgs, sent, statusOut,
                    callOut>>
     /\ UNCHANGED <<accVars, ordVars, omsOrdVars, omsExecVars, inVars,
                    concVars, refVars>>
  \/ /\ Oms_reconnect
     /\ UNCHANGED <<API_RATE, order_link_id_n, crPc, crArgs, sent, statusOut,
                    callOut>>
     /\ UNCHANGED <<accVars, ordVars, omsOrdVars, omsExecVars, inVars,
                    concVars, refVars>>
  \/ /\ Oms_reconnect_connect
     /\ UNCHANGED <<API_RATE, order_link_id_n, crPc, crArgs, sent, statusOut,
                    callOut>>
     /\ UNCHANGED <<accVars, ordVars, omsOrdVars, omsExecVars, inVars,
                    concVars, refVars>>
  \/ /\ \E c \in ConnIds : Conn_open(c)
     /\ UNCHANGED <<API_RATE, order_link_id_n, crPc, crArgs, sent, statusOut,
                    callOut>>
     /\ UNCHANGED <<accVars, ordVars, omsOrdVars, omsExecVars, inVars,
                    concVars, refVars>>
  \/ /\ \E c \in ConnIds : Pinger_step(c)
     /\ UNCHANGED <<API_RATE, order_link_id_n, crPc, crArgs, sent, statusOut,
                    callOut>>
     /\ UNCHANGED <<accVars, ordVars, omsOrdVars, omsExecVars, inVars,
                    concVars, refVars>>

InitOmsConn ==
  /\ AccInit /\ OrdIdle /\ OmsOrdInit /\ OmsExecInit /\ OmsThrInit
  /\ CallerInit

SpecOmsConn == InitOmsConn /\ [][OmsConnNext]_vars

\* the engine after all the fills were fed as one batch sorted by time
OneBatch ==
  LET r == AppendFills(<<>>, <<>>, universe)
  IN  MatchLoop([NewAcc(maker, taker) EXCEPT !.buys = r.buys, !.sells = r.sells])

SameRate(a, b) ==
  /\ a.none = b.none
  /\ a.num * b.den = b.num * a.den

OrdDone == pending = {} /\ accPc = "idle" /\ universe # <<>>

SameAsOneBatch ==
  /\ pnl = OneBatch.pnl
  /\ drawdown = OneBatch.drawdown
  /\ SameRate(win_rate(wins, n_matched),
              win_rate(OneBatch.wins, OneBatch.n_matched))

\* C3 as stated: whatever the order in which the batches arrive, the engine
\* ends with the PnL, drawdown and win rate of the one sorted batch.
C3_AnyDeliveryOrder == OrdDone => SameAsOneBatch

\* C3: for fills with distinct execution times whose batches arrive in
\* execution-time order, the fills inside a batch in any order, the engine
\* ends with the PnL, drawdown and win rate of the one sorted batch.
C3_ChronologicalBatches == (OrdDone /\ chrono) => SameAsOneBatch

C3_Witness ==
  /\ OrdDone /\ chrono /\ shuffled /\ batches >= 2
  /\ n_matched >= 2 /\ drawdown > 0 /\ SameAsOneBatch

----------------------------------------------------------------------------
(* Claims about SessionAcc, checked under SpecAcc *)

\* the net profit of matching Q units, as the specification words it
SpecNet(b, s, Q) ==
  RateDen * Q * s.price - RateDen * Q * b.price
    - Q * b.price * (IF b.isMaker THEN maker ELSE taker)
    - Q * s.price * (IF s.isMaker THEN maker ELSE taker)

\* C1: whenever _on_exec_message has finished, at least one of the two
\* unmatched-fill queues is empty.
C1_OneQueueEmpty ==
  accPc = "idle" => (buys = <<>> \/ sells = <<>>)

\* C2: a full match of the head buy against the head sell (equal
\* quantities Q) raises the realized PnL by exactly
\* Q*ps - Q*pb - Q*pb*feeRate(mb) - Q*ps*feeRate(ms); and with maker 0,
\* taker 0.001, buy 1 @100 (maker) then sell 1 @110 (taker) gives pnl 9.89,
\* peak 9.89, drawdown 0, matched 1, wins 1.
C2_FullMatchNet ==
  [][ /\ (accPc = "matching" /\ buys[1].qty = sells[1].qty)
         => pnl' - pnl = SpecNet(buys[1], sells[1], buys[1].qty)
      /\ ( /\ accPc = "matching" /\ maker = 0 /\ taker = 1 /\ n_matched = 0
           /\ buys = <<[price |-> 100, qty |-> 1, isMaker |-> TRUE]>>
           /\ sells = <<[price |-> 110, qty |-> 1, isMaker |-> FALSE]>> )
         => ( /\ pnl' = 9890 /\ max_pnl' = 9890 /\ drawdown' = 0
              /\ n_matched' = 1 /\ wins' = 1 )
    ]_vars

C2_Witness ==
  /\ matched.n = 1 /\ n_matched = 1
  /\ matched.b = [price |-> 100, qty |-> 1, isMaker |-> TRUE]
  /\ matched.s = [price |-> 110, qty |-> 1, isMaker |-> FALSE]
  /\ pnl = 9890

\* C4: peak PnL and drawdown never decrease, over every match and every
\* handled message.
C4_PeakDrawdownMonotone ==
  [][max_pnl' >= max_pnl /\ drawdown' >= drawdown]_vars

C4_Witness ==
  /\ n_matched = 2 /\ max_pnl > 0 /\ drawdown > 0 /\ pnl < max_pnl

\* C5: with heads of unequal remaining quantity a match of Q = min evicts
\* the smaller head and leaves the larger one at the front reduced by Q;
\* buy 2 then sell 1 gives one match and leaves 1 unit of that buy, and a
\* further sell 1 gives a second match that empties both queues.
C5_PartialFill ==
  [][ accPc = "matching" =>
        LET b == buys[1]
            s == sells[1]
        IN  /\ b.qty > s.qty =>
                 /\ buys' = <<[b EXCEPT !.qty = b.qty - s.qty]>> \o Tail(buys)
                 /\ sells' = Tail(sells)
            /\ s.qty > b.qty =>
                 /\ sells' = <<[s EXCEPT !.qty = s.qty - b.qty]>> \o Tail(sells)
                 /\ buys' = Tail(buys)
            /\ ( /\ n_matched = 0 /\ Len(buys) = 1 /\ Len(sells) = 1
                 /\ b.qty = 2 /\ s.qty = 1 )
               => ( /\ n_matched' = 1 /\ accPc' = "idle"
                    /\ buys' = <<[b EXCEPT !.qty = 1]>> /\ sells' = <<>> )
            /\ ( /\ n_matched = 1 /\ matched.b.qty = 2 /\ matched.s.qty = 1
                 /\ Len(buys) = 1 /\ Len(sells) = 1
                 /\ b.qty = 1 /\ s.qty = 1 )
               => ( /\ n_matched' = 2 /\ accPc' = "idle"
                    /\ buys' = <<>> /\ sells' = <<>> )
    ]_vars

C5_Witness ==
  /\ accPc = "idle" /\ n_matched = 2 /\ matched.n = 2
  /\ matched.b.qty = 1 /\ matched.s.qty = 1
  /\ buys = <<>> /\ sells = <<>>
  /\ pnl = SpecNet(matched.b, [matched.s EXCEPT !.price = 100], 1)
             + SpecNet(matched.b, matched.s, 1)
  /\ matched.s.price = 110

\* C6: win_rate is None while nothing was matched and wins/n_matched
\* otherwise; a match adds one to n_matched and adds one to wins exactly
\* when its net profit is >= 0; wins <= n_matched.
C6_WinRate ==
  /\ [](/\ wins <= n_matched
        /\ n_matched = 0 => win_rate(wins, n_matched).none
        /\ n_matched > 0 =>
             LET r == win_rate(wins, n_matched)
             IN  ~r.none /\ r.num * n_matched = wins * r.den)
  /\ [][ IF accPc = "matching"
         THEN /\ n_matched' = n_matched + 1
              /\ wins' = wins +
                   (IF SpecNet(buys[1], sells[1],
                               Min(buys[1].qty, sells[1].qty)) >= 0
                    THEN 1 ELSE 0)
         ELSE UNCHANGED <<wins, n_matched>>
     ]_vars

C6_Witness ==
  /\ n_matched = 2 /\ wins = 1 /\ matched.net = 0 /\ ~win_rate(wins, n_matched).none

----------------------------------------------------------------------------
(* Claims about Oms *)

\* C7: when the order-stream handler applies an event of the tracked
\* symbol/category, leaves-quantity 0 leaves the link-id out of the active
\* set with the event's status retrievable, leaves-quantity > 0 leaves it in
\* the active set; every order of the active set has leaves-quantity > 0.
C7_ActiveMembership ==
  /\ [](\A id \in DOMAIN active_orders : active_orders[id].leavesQty > 0)
  /\ [][ (ordPc = "applying" /\ Head(orderTodo).missing = "none") =>
           LET o == Head(orderTodo)
               id == o.orderLinkId
           IN  /\ o.leavesQty = 0 =>
                    /\ id \notin DOMAIN active_orders'
                    /\ id \in DOMAIN order_status'
                    /\ order_status'[id] = o.orderStatus
               /\ o.leavesQty > 0 =>
                    /\ id \in DOMAIN active_orders'
                    /\ active_orders'[id] = o
     ]_vars

C7_Witness ==
  /\ ordPc = "idle"
  /\ "a" \notin DOMAIN active_orders
  /\ "a" \in DOMAIN order_status
  /\ order_status["a"] = "Filled"
  /\ "b" \in DOMAIN active_orders
  /\ active_orders["b"].leavesQty > 0

\* C10: whenever the execution handler has finished, position() is the sum
\* of +quantity for each Buy and -quantity for each Sell over all the fills
\* delivered for the tracked symbol and category.
C10_PositionIsSum ==
  execPc = "idle" => position = deliveredNet

----------------------------------------------------------------------------
(* Claims about throttle *)

\* C8: for calls issued one after another through a throttle of rate r, the
\* timestamp recorded for call k+r is at least one second after the one
\* recorded for call k (rate 3: the 4th at least a second after the 1st).
C8_SpacedByRate ==
  \A k \in 1..Len(stamps) :
    k + rate <= Len(stamps) => stamps[k + rate] >= stamps[k] + TicksPerSecond

C8_Witness ==
  /\ rate = 3 /\ Len(stamps) = 4
  /\ stamps[3] = stamps[1]
  /\ stamps[4] >= stamps[1] + TicksPerSecond

\* the operations entered within the second that starts at started[i]
InSecondFrom(i) ==
  { j \in 1..Len(started) :
      started[i] <= started[j] /\ started[j] <= started[i] + TicksPerSecond }

\* the entries of sequence q equal to x
Count(q, x) == Cardinality({ i \in 1..Len(q) : q[i] = x })

\* C9: under every interleaving of concurrent callers no more than rate
\* throttled operations run within one second, and no timestamp recorded
\* within the trailing second is missing from the window.
C9_RateNeverExceeded ==
  /\ \A i \in 1..Len(started) : Cardinality(InSecondFrom(i)) <= rate
  /\ \A i \in 1..Len(stamps) :
       now - stamps[i] <= TicksPerSecond =>
         Count(calls, stamps[i]) >= Count(stamps, stamps[i])

----------------------------------------------------------------------------
(* Claims about the connections of Oms *)

\* C17: a connection held in the handle map, whenever it was created (by
\* connect() or by reconnect(), before or after a kill()), never has a
\* keepalive loop that has stopped: its pinger keeps pinging until the next
\* kill().
C17_KeepaliveUntilKill ==
  \A k \in DOMAIN websockets : pinger[websockets[k]] # "exited"

\* C18: when kill() has returned, the continuation flag is clear, the handle
\* map is empty and close() has been called on every connection the map
\* held, also when one of the closes raised.
C18_KillClosesAll ==
  lastOp.op = "kill" =>
    /\ ~flag
    /\ websockets = << >>
    /\ \A c \in killed : connState[c] \in {"closed", "closeRaised"}

----------------------------------------------------------------------------
(* Claims about the queues of SessionAcc *)

\* C20: in every state in which _on_exec_message is not running, every fill
\* held in the buy queue or in the sell queue has a remaining quantity
\* greater than zero.
C20_QueuedQtyPositive ==
  accPc = "idle" =>
    /\ \A i \in 1..Len(buys) : buys[i].qty > 0
    /\ \A i \in 1..Len(sells) : sells[i].qty > 0

----------------------------------------------------------------------------
(* Claims about the caller operations of Oms *)

\* the step in which the caller calls operation name
Calls(name) == lastOp'.n = lastOp.n + 1 /\ lastOp'.op = name

\* C11: create transmits a create request exactly when the signal is clear
\* and the quantity is not zero; when the signal is set or the quantity is
\* zero it records "Unsubmitted" and transmits nothing, so no create request
\* of quantity zero is ever among the requests sent.
C11_CreateIffClearAndNonZero ==
  /\ [](\A i \in 1..Len(sent) :
          sent[i].op = "order.create" => sent[i].qty # 0)
  /\ [][ (Calls("create") /\ position_event) =>
           /\ crPc' = "idle"
           /\ sent' = sent
           /\ order_status'[lastOp'.id] = "Unsubmitted"
     ]_vars

\* C12: under every interleaving of create with the execution-stream worker,
\* no create request is sent at a moment when the signal is set.
C12_NoCreateWhileUpdating ==
  \A i \in 1..Len(sent) : sent[i].op = "order.create" => ~sent[i].signal

\* C13: order_status never raises: for a link-id without an entry in the
\* status map it returns an empty result.
C13_StatusNeverRaises ==
  lastOp.op = "order_status" => callOut # "KeyError"

\* C14: cancel for a link-id that is not in the active set sends nothing,
\* raises nothing, records no call in the throttle's list and leaves the
\* active set and the status map as they were; for a link-id in the active
\* set it sends one cancel that names the order's exchange-assigned id.
C14_CancelUnknownIsNoOp ==
  [][ Calls("cancel") =>
        IF lastOp'.id \notin DOMAIN active_orders
        THEN /\ sent' = sent
             /\ callOut' = "returned"
             /\ calls' = calls
             /\ stamps' = stamps
             /\ active_orders' = active_orders
             /\ order_status' = order_status
        ELSE TradeSend = "sent" =>
               /\ Len(sent') = Len(sent) + 1
               /\ sent'[Len(sent')].op = "order.cancel"
               /\ sent'[Len(sent')].orderId = active_orders[lastOp'.id].orderId
               /\ stamps' = Append(stamps, now)
    ]_vars

\* the throttled operations recorded no later than the one recorded i-th
\* and within the second that ends with it
InTrailingSecond(i) ==
  { j \in 1..i : stamps[i] - stamps[j] <= TicksPerSecond }

\* C19: for an engine built with api_rate = r, no more than r throttled
\* operations are let through in any trailing second.
C19_RateIsApiRate ==
  \A i \in 1..Len(stamps) : Cardinality(InTrailingSecond(i)) <= API_RATE

----------------------------------------------------------------------------
(* Claims about the inbound side *)

\* the step in which a handler is given a message
Delivers == inbound'.n = inbound.n + 1

\* a batch in which some event lacks a key
Malformed(i) ==
  /\ IsStream(i.ch) /\ i.msg.hasTopic
  /\ \E k \in 1..Len(i.msg.data) : i.msg.data[k].missing # "none"

\* an explicit protocol rejection
Rejection(i) ==
  IF IsStream(i.ch) THEN i.msg.hasSuccess /\ ~i.msg.success
  ELSE i.ch = "trade" /\ i.msg.retCode # 0

\* an explicit acceptance
Acceptance(i) ==
  IF IsStream(i.ch) THEN i.msg.hasSuccess /\ i.msg.success
  ELSE i.ch = "trade" /\ i.msg.retCode = 0

\* how the handler of channel ch ended
OutOf(ch, oOrd, oExec, oAcc, oTrade) ==
  IF ch = "order" THEN oOrd ELSE IF ch = "exec" THEN oExec
  ELSE IF ch = "acc" THEN oAcc ELSE oTrade

orderState == <<order_status, active_orders>>
positionState == <<position, side>>
accountingState == <<buys, sells, wins, n_matched, pnl, max_pnl, drawdown>>

\* C15: a batch in which some event lacks a key is ignored by the handler it
\* is given to: the handler raises nothing and, from the moment it is given
\* the batch until it has finished, changes neither the status map and
\* active set, nor the position and last side, nor the queues and metrics;
\* the Event is, when the execution handler has finished, as it was before.
C15_MalformedIgnored ==
  /\ [][ (Delivers /\ Malformed(inbound')) =>
           /\ OutOf(inbound'.ch, ordOut', execOut', accOut', tradeOut') = "returned"
           /\ orderState' = orderState
           /\ positionState' = positionState
           /\ accountingState' = accountingState
     ]_vars
  /\ [][ (~Delivers /\ Malformed(inbound)) =>
           /\ (inbound.ch = "order" /\ ordPc = "applying") =>
                 orderState' = orderState
           /\ (inbound.ch = "exec" /\ execPc = "processing") =>
                 /\ positionState' = positionState
                 /\ position_event' = inbound.signal
           /\ (inbound.ch = "acc" /\ accPc = "matching") =>
                 accountingState' = accountingState
     ]_vars

\* C16: a message with success=false on the order stream or on an execution
\* stream, or with a non-zero result code on the order-entry channel, makes
\* its handler raise ConnectionError and changes no order, position or
\* accounting state; a message with success=true or with result code 0
\* raises nothing.
C16_RejectionRaises ==
  [][ Delivers =>
        /\ Rejection(inbound') =>
             /\ OutOf(inbound'.ch, ordOut', execOut', accOut', tradeOut')
                  = "ConnectionError"
             /\ orderState' = orderState
             /\ positionState' = positionState
             /\ position_event' = position_event
             /\ accountingState' = accountingState
             /\ <<ordPc', execPc', accPc'>> = <<ordPc, execPc, accPc>>
        /\ Acceptance(inbound') =>
             OutOf(inbound'.ch, ordOut', execOut', accOut', tradeOut')
               = "returned"
    ]_vars

\* a rejection has been raised on the order stream of an engine that holds
\* an active order, a position and an unmatched fill
C16_Witness ==
  /\ inbound.ch = "order" /\ Rejection(inbound)
  /\ ordOut = "ConnectionError"
  /\ active_orders # << >>
  /\ position # 0
  /\ buys # <<>>

----------------------------------------------------------------------------
(* Claims about the update-in-progress signal *)

\* C21: whenever the order engine's execution handler has finished with a
\* message (applied, ignored, malformed or ended in an error) the
\* update-in-progress signal is clear, so no create() issued between two
\* batches finds it set.
C21_SignalClearWhenIdle ==
  execPc = "idle" => ~position_event

----------------------------------------------------------------------------
(* Claims about create_order called from several contexts *)

\* C22: any two create() calls that omit the link-id are given distinct
\* link-ids, also when issued at the same time from different contexts, and
\* the counter the link-ids are built from never repeats or decreases.
C22_DistinctLinkIds ==
  /\ [](\A i, j \in 1..Len(sent) :
          (i # j /\ sent[i].op = "order.create" /\ sent[j].op = "order.create")
            => sent[i].orderLinkId # sent[j].orderLinkId)
  /\ [][order_link_id_n' >= order_link_id_n]_vars

----------------------------------------------------------------------------
(* Claims about the order stream, batch by batch *)

\* the tracked events of a batch
TrackedOf(d) == { d[i] : i \in { k \in 1..Len(d) : IsTracked(d[k]) } }

\* a batch of the order topic in which no event lacks a key
Complete(i) ==
  /\ i.ch = "order" /\ i.msg.hasTopic /\ i.msg.topic = "order"
  /\ \A k \in 1..Len(i.msg.data) : i.msg.data[k].missing = "none"

BatchIds(i) ==
  IF i.ch = "order" /\ i.msg.hasTopic /\ i.msg.topic = "order"
  THEN { e.orderLinkId : e \in TrackedOf(i.msg.data) }
  ELSE {}

\* the event of the batch with the greatest update time for link-id id
Latest(d, id) ==
  CHOOSE e \in TrackedOf(d) :
    /\ e.orderLinkId = id
    /\ \A f \in TrackedOf(d) : f.orderLinkId = id => f.updatedTime <= e.updatedTime

\* what a map holds for a key
Entry(f, k) == IF k \in DOMAIN f THEN <<f[k]>> ELSE <<>>

Reversed(d) == [i \in 1..Len(d) |-> d[Len(d) + 1 - i]]

\* C23: one order-stream batch whose events carry distinct update times
\* gives the same status map and active set whatever the order in which its
\* events are delivered: the handler visits the tracked events in ascending
\* update time whether the batch arrives as it is or reversed; when it has
\* finished, every link-id of the batch has the status of its event with the
\* greatest update time and is in the active set exactly if that event has
\* leaves-quantity other than 0; the other link-ids are left as they were.
C23_BatchOrderIrrelevant ==
  /\ [](Complete(inbound) =>
          /\ OrderIntake(DataMsg("order", Reversed(inbound.msg.data)))
               = OrderIntake(inbound.msg)
          /\ ordPc = "idle" =>
               \A id \in BatchIds(inbound) :
                 LET e == Latest(inbound.msg.data, id) IN
                   /\ Entry(order_status, id) = <<e.orderStatus>>
                   /\ Entry(active_orders, id)
                        = IF e.leavesQty # 0 THEN <<e>> ELSE <<>>)
  /\ [][ \A id \in LinkIds \ BatchIds(inbound') :
           /\ Entry(order_status', id) = Entry(order_status, id)
           /\ Entry(active_orders', id) = Entry(active_orders, id) ]_vars

\* a batch was delivered newest event first, both events naming the same
\* order, on an engine that already held the other order; the order has the
\* status of the newer event
C23_Witness ==
  /\ Complete(inbound) /\ ordPc = "idle" /\ inbound.n = 2
  /\ Len(inbound.msg.data) = 2
  /\ inbound.msg.data[1].orderLinkId = "a"
  /\ inbound.msg.data[2].orderLinkId = "a"
  /\ IsTracked(inbound.msg.data[1])
  /\ IsTracked(inbound.msg.data[2])
  /\ inbound.msg.data[1].updatedTime > inbound.msg.data[2].updatedTime
  /\ inbound.msg.data[1].orderStatus = "Filled"
  /\ inbound.msg.data[2].orderStatus = "New"
  /\ order_status["a"] = "Filled"
  /\ "a" \notin DOMAIN active_orders
  /\ "b" \in DOMAIN active_orders

\* C28: what the engine holds for a link-id is never replaced by older
\* information: when the handler applies an event whose update time is less
\* than that of the event the active set holds for the same link-id, which
\* was delivered before, the status and the active-set entry of that
\* link-id stay as they are.
C28_NoRegression ==
  [][ (ordPc = "applying" /\ Head(orderTodo).missing = "none") =>
        LET o == Head(orderTodo)
            id == o.orderLinkId
        IN  (id \in DOMAIN active_orders
               /\ active_orders[id].updatedTime > o.updatedTime) =>
              /\ Entry(order_status', id) = Entry(order_status, id)
              /\ Entry(active_orders', id) = Entry(active_orders, id)
    ]_vars

----------------------------------------------------------------------------
(* Claims about the requests the caller operations send *)

\* C24: every amend transmits exactly one amend request that names the
\* tracked symbol and category and the caller's fields, is recorded once in
\* the throttle window and returns without raising, also when the fields
\* hold a price and no quantity; the order's status becomes "Unsubmitted"
\* exactly when the quantity is zero and the status map is otherwise left
\* as it is.
C24_AmendAlwaysTransmits ==
  [][ (Calls("amend") /\ TradeSend = "sent") =>
        /\ sent' = Append(sent, Request("order.amend", Symbol, Category,
                                        lastOp'.id, "", lastOp'.qty))
        /\ stamps' = Append(stamps, now)
        /\ callOut' = "returned"
        /\ order_status' = IF lastOp'.qty = 0
                           THEN Put(order_status, lastOp'.id, "Unsubmitted")
                           ELSE order_status
    ]_vars

\* C27: every request the engine sends names the engine's tracked symbol
\* and category; a cancel carries them together with the exchange-assigned
\* id of the active order it cancels.
C27_RequestsNameTracked ==
  \A i \in 1..Len(sent) :
    /\ sent[i].symbol = Symbol
    /\ sent[i].category = Category

----------------------------------------------------------------------------
(* Claims about the session metrics and the queues *)

\* C26: initially and after every match, peak >= pnl, peak >= 0 and
\* drawdown >= peak - pnl >= 0; the metrics start at 0, every match makes
\* the peak the greater of the old peak and the new PnL and the drawdown the
\* greater of the old drawdown and the new peak minus the new PnL, and
\* nothing else changes them, so that the peak is the maximum of 0 and every
\* PnL observed after a match and the drawdown the maximum of peak - pnl over
\* those points.
C26_MetricsInvariant ==
  /\ [](/\ max_pnl >= pnl /\ max_pnl >= 0
        /\ drawdown >= max_pnl - pnl /\ max_pnl - pnl >= 0
        /\ n_matched = 0 => (pnl = 0 /\ max_pnl = 0 /\ drawdown = 0))
  /\ [][ IF n_matched' = n_matched + 1
         THEN /\ max_pnl' = Max(max_pnl, pnl')
              /\ drawdown' = Max(drawdown, max_pnl' - pnl')
         ELSE <<pnl', max_pnl', drawdown'>> = <<pnl, max_pnl, drawdown>>
     ]_vars

\* a loss followed by a smaller gain: the peak is still 0 and the drawdown
\* is that of the first match, more than the present peak - pnl
C26_Witness ==
  /\ accPc = "idle" /\ n_matched = 2
  /\ max_pnl = 0 /\ pnl < 0
  /\ drawdown > max_pnl - pnl

\* the sum of the remaining quantities of a queue
RECURSIVE QtySum(_)
QtySum(q) == IF q = <<>> THEN 0 ELSE Head(q).qty + QtySum(Tail(q))

QueueNet == QtySum(buys) - QtySum(sells)

\* +quantity for every Buy and -quantity for every Sell that a message of
\* the execution topic delivers for the tracked symbol and category
NetOfMsg(msg) ==
  IF msg.hasTopic /\ msg.topic = AccTopic THEN NetOfFills(msg.data) ELSE 0

\* what Oms._on_exec_message adds to the position when given msg
OmsDelta(msg) ==
  IF ExecCondition(msg) # "true" \/ FilterRaises(msg.data)
       \/ \E i \in 1..Len(msg.data) :
            IsTracked(msg.data[i]) /\ ~Has(msg.data[i], "execTime")
  THEN 0
  ELSE Accumulate(0, SortedByExecTime(SelectTracked(msg.data))).position

\* C25: matching conserves quantity: every execution message changes the
\* buy queue's remaining quantity minus the sell queue's by exactly the Buy
\* quantity minus the Sell quantity it delivers, which is also what the
\* order engine adds to its position for the same message, and nothing else
\* changes that difference; so after the same stream the difference of the
\* queues equals the order engine's position.
C25_QuantityConserved ==
  /\ [][ IF Delivers /\ inbound'.ch = "acc"
         THEN /\ QueueNet' - QueueNet = OmsDelta(inbound'.msg)
              /\ QueueNet' - QueueNet = NetOfMsg(inbound'.msg)
         ELSE QueueNet' = QueueNet ]_vars
  /\ [][ (inbound.ch = "exec" /\ execPc = "processing" /\ execPc' = "idle") =>
           position' - position = NetOfMsg(inbound.msg) ]_vars

----------------------------------------------------------------------------
(* Claims about SessionAcc and the reference engine *)

\* C29: appending all the fills of a batch and then matching makes the same
\* matches, in the same order, as matching after every single fill taken in
\* execution-time order: every match of the engine is the next match of the
\* reference (same oldest buy, same oldest sell, same quantity, same net
\* profit, same number), and whenever the engine has finished a message its
\* queues, PnL, peak, drawdown, matched count and win count are those of
\* the reference and no match of the reference is outstanding.
C29_BatchEqualsPerFill ==
  /\ [](accPc = "idle" => (AccState = ref.st /\ ref.todo = <<>>))
  /\ [][ n_matched' = n_matched + 1 =>
           (ref.todo # <<>> /\ matched' = Head(ref.todo)) ]_vars

\* a batch of two fills has met a queue that was not empty and given two
\* matches, where the reference matched, appended and matched again
C29_Witness ==
  /\ accPc = "idle"
  /\ ref.fills = 2
  /\ ref.from = 0 /\ n_matched = 2
  /\ pnl # 0
  /\ buys = <<>> /\ sells = <<>>

====
